---- MODULE Spec2Model ----
\* National Park Service MCP gateway: the lazily authenticated tool registry
\* of src/dep.py (FastAPI application, ParkSearchArgs, NPSAPIClient and the
\* three tool functions) as a state machine.
\*
\* Conventions
\*   - a Python str is a sequence of characters, so that upper() and lower()
\*     are computed character by character;
\*   - an Optional value is a sequence of length at most one: <<>> is None and
\*     <<v>> is the value v;
\*   - times are in milliseconds; time.time() is the variable now;
\*   - a coroutine runs without interruption from one `await asyncio.sleep`
\*     to the next: requests.get is a blocking call, during which the event
\*     loop runs nothing else and the clock advances by the call's duration.
EXTENDS Integers, Sequences, FiniteSets, TLC

VARIABLES now, env_key, registry, last_request_time, slots, starts, reply, ev,
          nps, stdio

vars == <<now, env_key, registry, last_request_time, slots, starts, reply, ev,
          nps, stdio>>

-----------------------------------------------------------------------------
\* Bounds of the model

\* longest park_code / state_code string a caller sends
MaxStrLen == 3
\* value of time.time() when the process starts (any value far above 0)
StartTime == 1000

-----------------------------------------------------------------------------
\* Program constants (src/dep.py lines 29-31), times in milliseconds

MAX_RETRIES == 3
REQUEST_TIMEOUT_MS == 30000
RATE_LIMIT_DELAY_MS == 100

SETUP_URL == "https://www.nps.gov/subjects/developer/"

-----------------------------------------------------------------------------
\* Strings

None == <<>>
Some(v) == <<v>>
IsNone(o) == o = <<>>
Val(o) == o[1]

\* a lower-case letter and its upper-case form
Alphabet == {"a", "A"}
\* the same with "sz", the German sharp s (U+00DF): a lower-case letter whose
\* upper-case form is the two characters "SS"
WideAlphabet == {"a", "A", "sz"}

StrsOfLen(n) == [1..n -> Alphabet]
Strs == UNION {StrsOfLen(n) : n \in 0..MaxStrLen}
WideStrs == UNION {[1..n -> WideAlphabet] : n \in 0..MaxStrLen}

\* the upper-case form of one character is a string: Python's str.upper()
\* applies the full Unicode case mapping, which can give more than one
\* character
upper_char(c) ==
    IF c = "a" THEN <<"A">> ELSE IF c = "sz" THEN <<"S", "S">> ELSE <<c>>
lower_char(c) == IF c = "A" THEN "a" ELSE IF c = "S" THEN "s" ELSE c
\* str.upper() and str.lower()
str_upper(s) ==
    LET up[i \in 0..Len(s)] == IF i = 0 THEN <<>> ELSE up[i - 1] \o upper_char(s[i])
    IN  up[Len(s)]
str_lower(s) == [i \in 1..Len(s) |-> lower_char(s[i])]
\* Python truthiness of an Optional[str]: None and "" are falsy
Truthy(o) == ~IsNone(o) /\ Len(Val(o)) > 0

-----------------------------------------------------------------------------
\* ParkSearchArgs (src/dep.py lines 75-109)

\* A key of the caller's "arguments" object: missing, null, or a value.
JMissing == [k |-> "missing"]
JNull == [k |-> "null"]
JVal(v) == [k |-> "val", v |-> v]

\* Optional[str] = None: a missing or null key gives None.
StrField(j) == IF j.k = "val" THEN Some(j.v) ELSE None

LIMIT_DEFAULT == 10
LIMIT_GE == 1
LIMIT_LE == 50

\* (mutant) a limit outside [1,50] is clamped instead of rejected
limit_field_clamped(j) ==
    IF j.k = "missing" THEN [ok |-> TRUE, v |-> Some(LIMIT_DEFAULT)]
    ELSE IF j.k = "null" THEN [ok |-> TRUE, v |-> None]
    ELSE IF j.v > LIMIT_LE THEN [ok |-> TRUE, v |-> Some(LIMIT_LE)]
    ELSE IF j.v < LIMIT_GE THEN [ok |-> TRUE, v |-> Some(LIMIT_GE)]
    ELSE [ok |-> TRUE, v |-> Some(j.v)]
\* limit: Optional[int] = Field(10, ge=1, le=50)
limit_field(j) ==
    IF j.k = "missing" THEN [ok |-> TRUE, v |-> Some(LIMIT_DEFAULT)]
    ELSE IF j.k = "null" THEN [ok |-> TRUE, v |-> None]
    ELSE IF j.v >= LIMIT_GE /\ j.v <= LIMIT_LE THEN [ok |-> TRUE, v |-> Some(j.v)]
    ELSE [ok |-> FALSE, v |-> None]

\* (mutant) only a state code longer than 2 characters is rejected
validate_state_code_max(v) ==
    IF Truthy(v) /\ Len(Val(v)) > 2
    THEN [ok |-> FALSE, v |-> v]
    ELSE [ok |-> TRUE, v |-> IF Truthy(v) THEN Some(str_upper(Val(v))) ELSE v]
\* @validator('state_code'): `if v and len(v) != 2: raise`, then upper()
validate_state_code(v) ==
    IF Truthy(v) /\ Len(Val(v)) # 2
    THEN [ok |-> FALSE, v |-> v]
    ELSE [ok |-> TRUE, v |-> IF Truthy(v) THEN Some(str_upper(Val(v))) ELSE v]

\* @validator('park_code'): `if v and len(v) < 2: raise`, then lower()
validate_park_code(v) ==
    IF Truthy(v) /\ Len(Val(v)) < 2
    THEN [ok |-> FALSE, v |-> v]
    ELSE [ok |-> TRUE, v |-> IF Truthy(v) THEN Some(str_lower(Val(v))) ELSE v]

\* ParkSearchArgs(**args): every field is validated, the model is built when
\* every field passed and a ValidationError is raised otherwise.
ParkSearchArgs(args) ==
    LET pc == validate_park_code(StrField(args.park_code))
        sc == validate_state_code(StrField(args.state_code))
        lm == limit_field(args.limit)
    IN  [ok |-> pc.ok /\ sc.ok /\ lm.ok,
         failed |-> (IF pc.ok THEN {} ELSE {"park_code"})
                    \cup (IF sc.ok THEN {} ELSE {"state_code"})
                    \cup (IF lm.ok THEN {} ELSE {"limit"}),
         model |-> [park_code |-> pc.v,
                    state_code |-> sc.v,
                    search_term |-> StrField(args.search_term),
                    limit |-> lm.v]]

NoArgsModel == [park_code |-> None, state_code |-> None,
                search_term |-> None, limit |-> None]

-----------------------------------------------------------------------------
\* TOOLS_REGISTRY (src/dep.py lines 356-390): the module-level dict as it is
\* built at import. The variable registry is the dict while the process runs.

ToolNames == {"get_park", "get_passport_stamp_locations", "get_park_activities"}

ToolFunction(n) ==
    CASE n = "get_park" -> "get_park_data"
      [] n = "get_passport_stamp_locations" -> "get_passport_stamp_locations_data"
      [] n = "get_park_activities" -> "get_park_activities_data"

TOOLS_REGISTRY ==
    [n \in ToolNames |->
        [name |-> n,
         description |-> <<"description of", n>>,
         function |-> ToolFunction(n),
         input_schema |-> "ParkSearchArgs.schema()"]]

\* the endpoint each tool function passes to _make_request
Endpoint(fn) ==
    CASE fn = "get_park_data" -> "parks"
      [] fn = "get_passport_stamp_locations_data" -> "passportstamplocations"
      [] fn = "get_park_activities_data" -> "thingstodo"

-----------------------------------------------------------------------------
\* What the upstream provider can answer to one requests.get

\* A parsed 200 body, reduced to the keys the code reads: "total" and "data".
\* An item of "data" is a JSON object or not, and its "tags" are absent, a
\* list of objects or a list of strings.
Item(obj, tags) == [obj |-> obj, tags |-> tags]
JsonObject(total, data) == [json |-> "object", total |-> total, data |-> data]
NoBody == [json |-> "none", total |-> None, data |-> None]

Response(status, body) == [exc |-> "", status |-> status, body |-> body]
Timeout == [exc |-> "Timeout", status |-> 0, body |-> NoBody]
ConnectionError == [exc |-> "ConnectionError", status |-> 0, body |-> NoBody]

\* {"total": 1, "data": [{..., "tags": [{"name": ...}]}]}
BodyPlain == JsonObject(Some(1), Some(<<Item(TRUE, "objects")>>))
\* {"total": 1, "data": [{..., "tags": ["hiking"]}]}
BodyStringTags == JsonObject(Some(1), Some(<<Item(TRUE, "strings")>>))
\* {"data": ["x"]}
BodyStringItems == JsonObject(None, Some(<<Item(FALSE, "none")>>))
\* {"total": 0}
BodyNoData == JsonObject(Some(0), None)
\* {}
BodyEmpty == JsonObject(None, None)
\* a body that is not JSON, and a JSON array
BodyInvalid == [json |-> "invalid", total |-> None, data |-> None]
BodyArray == [json |-> "array", total |-> None, data |-> None]

\* the bodies the provider's resources give, and every body the code accepts
ProviderBodies == {BodyPlain, BodyStringTags, BodyNoData, BodyEmpty}
ObjectBodies == ProviderBodies \cup {BodyStringItems}
Ok200 == {Response(200, b) : b \in ObjectBodies}
Provider200 == {Response(200, b) : b \in ProviderBodies}
Failures == {Response(429, NoBody), Response(404, NoBody), Response(500, NoBody),
             Response(204, NoBody), Response(200, BodyInvalid), Timeout,
             ConnectionError}
AllOutcomes == Ok200 \cup Failures \cup {Response(200, BodyArray)}

IsJsonObject200(o) == o.exc = "" /\ o.status = 200 /\ o.body.json = "object"
\* an HTTP status other than 2xx and 429
IsErrorStatus(o) == o.exc = "" /\ o.status # 429 /\ (o.status < 200 \/ o.status > 299)

StatusText(n) ==
    CASE n = 404 -> "404" [] n = 500 -> "500" [] n = 204 -> "204"
      [] n = 429 -> "429" [] n = 200 -> "200" [] OTHER -> "0"

-----------------------------------------------------------------------------
\* APIResponse (src/dep.py lines 111-116)

Error(msg, mentions) == [msg |-> msg, mentions |-> mentions]

APIResponse(success, data, error, metadata) ==
    [success |-> success, data |-> data, error |-> error, metadata |-> metadata]

\* the result of the lazy credential gate (lines 196-202 and the two copies)
MissingCredential ==
    APIResponse(FALSE, None,
                Some(Error("NPS_API_KEY environment variable is required", {SETUP_URL})),
                Some([setup_url |-> SETUP_URL]))

\* `except Exception` of the tool functions (lines 234-239)
UnexpectedError(what) ==
    APIResponse(FALSE, None, Some(Error("Unexpected error", {what})), None)

\* (mutant) the HTTPError of raise_for_status is caught by no except clause
AttemptEndUncaught(o) ==
    IF o.exc = "Timeout" THEN "timeout"
    ELSE IF o.exc = "ConnectionError" THEN "reqexc"
    ELSE IF o.status = 200
         THEN (IF o.body.json = "object" THEN "return"
               ELSE IF o.body.json = "invalid" THEN "reqexc" ELSE "raise")
    ELSE IF o.status = 429 THEN "wait429"
    ELSE IF o.status >= 400 THEN "raise"
    ELSE "fall"

\* how one attempt of _make_request ends (lines 141-184):
\*   "return"   the 200 branch returns success
\*   "raise"    data.get fails on a body that is no object: not a
\*              RequestException, so it leaves _make_request
\*   "wait429"  the 429 branch sleeps and continues
\*   "timeout"  except requests.exceptions.Timeout
\*   "reqexc"   except requests.exceptions.RequestException: a connection
\*              failure, the HTTPError of raise_for_status (status >= 400) and
\*              the JSONDecodeError of response.json()
\*   "fall"     raise_for_status does not raise (another 2xx or a 3xx)
AttemptEnd(o) ==
    IF o.exc = "Timeout" THEN "timeout"
    ELSE IF o.exc = "ConnectionError" THEN "reqexc"
    ELSE IF o.status = 200
         THEN (IF o.body.json = "object" THEN "return"
               ELSE IF o.body.json = "invalid" THEN "reqexc" ELSE "raise")
    ELSE IF o.status = 429 THEN "wait429"
    ELSE IF o.status >= 400 THEN "reqexc"
    ELSE "fall"

\* str(e) of the RequestException caught at line 174: an HTTPError names the
\* status and the URL, a connection failure names the URL; the URL carries
\* the query string, api_key included.
RequestExceptionText(o, params) ==
    IF o.exc = "ConnectionError" THEN {params.api_key}
    ELSE IF o.status = 200 THEN {}
    ELSE {StatusText(o.status), params.api_key}

\* (mutant) total_results does not take the body's total
SuccessResponseNoTotal(o, endpoint, dur) ==
    APIResponse(TRUE, Some(o.body), None,
                Some([total_results |-> 0,
                      api_endpoint |-> endpoint,
                      response_time_ms |-> dur]))

\* the APIResponse of the 200 branch (lines 149-158)
SuccessResponse(o, endpoint, dur) ==
    APIResponse(TRUE, Some(o.body), None,
                Some([total_results |-> IF IsNone(o.body.total) THEN 0 ELSE Val(o.body.total),
                      api_endpoint |-> endpoint,
                      response_time_ms |-> dur]))

\* the enrichment of a tool function raises (lines 222-230, 271-280, 319-328):
\*   get_park_data reads park.get of the first three items, the two others
\*   read .get of every item, and get_park_activities_data reads
\*   tags[0].get of every item that has tags.
Items(body) == IF IsNone(body.data) THEN <<>> ELSE Val(body.data)
EnrichmentRaises(fn, body) ==
    LET items == Items(body)
        seen == IF fn = "get_park_data"
                THEN {i \in 1..Len(items) : i <= 3} ELSE 1..Len(items)
    IN  \E i \in seen :
            \/ ~items[i].obj
            \/ fn = "get_park_activities_data" /\ items[i].tags = "strings"

\* `response.data` is falsy for the empty object {}
DataTruthy(body) == ~(IsNone(body.total) /\ IsNone(body.data))

EnrichmentKeys(fn) ==
    CASE fn = "get_park_data" -> {"parks_found", "search_params", "popular_parks"}
      [] fn = "get_passport_stamp_locations_data" ->
            {"stamp_locations_found", "search_params", "location_types"}
      [] fn = "get_park_activities_data" ->
            {"activities_found", "search_params", "activity_types"}

\* search_params: the parameters without api_key
SearchParams(params) == [k \in DOMAIN params \ {"api_key"} |-> params[k]]

\* what the tool function returns for what _make_request returned
\* (lines 217-232): a success with data is enriched
ToolReturn(fn, params, r) ==
    IF r.success /\ ~IsNone(r.data) /\ DataTruthy(Val(r.data))
    THEN IF EnrichmentRaises(fn, Val(r.data))
         THEN UnexpectedError("enrichment")
         ELSE [r EXCEPT !.metadata =
                  Some([base |-> Val(r.metadata),
                        found |-> Len(Items(Val(r.data))),
                        added |-> EnrichmentKeys(fn),
                        search_params |-> SearchParams(params)])]
    ELSE r

-----------------------------------------------------------------------------
\* Responses of the FastAPI application

NoResp == [http |-> 0, body |-> [kind |-> "none"]]

\* (mutant) the envelope reports success whatever the tool function returned
EnvelopeAlwaysSuccess(tool, result, args, t) ==
    [http |-> 200,
     body |-> [kind |-> "envelope",
               tool |-> tool,
               result |-> result,
               status |-> "success",
               arguments_provided |-> args,
               execution_time |-> t]]

\* JSONResponse(content=response_data, status_code=...) of mcp_post
\* (src/dep.py lines 484-497)
Envelope(tool, result, args, t) ==
    [http |-> IF result.success THEN 200 ELSE 400,
     body |-> [kind |-> "envelope",
               tool |-> tool,
               result |-> result,
               status |-> IF result.success THEN "success" ELSE "error",
               arguments_provided |-> args,
               execution_time |-> t]]

\* @app.exception_handler(404) (lines 579-588): the application's handler
\* for status 404 answers every HTTPException with that status, those raised
\* inside a route included, and does not look at the exception's detail.
not_found_handler ==
    [http |-> 404,
     body |-> [kind |-> "endpoint_not_found",
               error |-> "Endpoint not found",
               names |-> {},
               available_endpoints |-> {"/", "/mcp", "/health", "/docs"}]]

\* What the caller receives for `raise HTTPException(status, detail)`: the
\* handler registered for the status when there is one, and FastAPI's
\* {"detail": ...} otherwise. `names` are the tool names the detail lists.
HTTPException(status, detail, names) ==
    IF status = 404 THEN not_found_handler
    ELSE [http |-> status,
          body |-> [kind |-> "detail", detail |-> detail, names |-> names]]

-----------------------------------------------------------------------------
\* The state of one invocation (one run of the mcp_post coroutine)

NoRequest == [tool |-> None,
              arguments |-> [park_code |-> JMissing, state_code |-> JMissing,
                             search_term |-> JMissing, limit |-> JMissing]]
NoParams == [none |-> TRUE]

\* what _make_request gave its caller: nothing yet, an APIResponse, or an
\* exception
NotReturned == [how |-> "pending"]
Returned(r) == [how |-> "return", r |-> r]
Raised(what) == [how |-> "raise", what |-> what]

\* reply is the response to the last request that is not an invocation
\* (discovery, of either gateway); ev names the handler that ran last, with
\* the reads of NPS_API_KEY and the outbound calls of that step.
\* pc: "idle" no request, "rate_wait" suspended in the sleep of line 133,
\* "backoff" suspended in the sleep of line 162 or 184, "responded".
IdleSlot ==
    [pc |-> "idle", body |-> NoRequest, tool_fn |-> "", validated |-> FALSE,
     args_model |-> NoArgsModel, params |-> NoParams, attempt |-> 0, wake |-> 0,
     outcomes |-> <<>>, slept |-> <<>>, rate_wait |-> 0, cred_reads |-> 0,
     http_calls |-> 0, calls |-> <<>>, api_key |-> None, adapter |-> NotReturned,
     resp |-> NoResp]

Event(op, s, getenv, http) == [op |-> op, slot |-> s, getenv |-> getenv, http |-> http]

\* params of the tool functions (lines 204-215)
BuildParams(api_key, args) ==
    LET base == [api_key |-> api_key, limit |-> args.limit]
        with_park == IF Truthy(args.park_code)
                     THEN [k \in DOMAIN base \cup {"parkCode"} |->
                              IF k = "parkCode" THEN Val(args.park_code) ELSE base[k]]
                     ELSE base
        with_state == IF Truthy(args.state_code)
                      THEN [k \in DOMAIN with_park \cup {"stateCode"} |->
                               IF k = "stateCode" THEN Val(args.state_code) ELSE with_park[k]]
                      ELSE with_park
    IN  IF Truthy(args.search_term)
        THEN [k \in DOMAIN with_state \cup {"q"} |->
                 IF k = "q" THEN Val(args.search_term) ELSE with_state[k]]
        ELSE with_state

\* (mutant) the exponent counted from 1
BackoffFromOne(attempt) == 2 ^ (attempt + 1)

\* wait_time = 2 ** attempt, in seconds (lines 160 and 184)
Backoff(attempt) == 2 ^ attempt

Sleep(sl, secs, t) ==
    [sl EXCEPT !.pc = "backoff", !.wake = t + secs * 1000, !.slept = Append(@, secs)]

\* mcp_post builds the envelope from the tool function's result
\* (lines 482-497)
Respond(sl, result, t) ==
    [sl EXCEPT !.pc = "responded",
               !.resp = Envelope(Val(sl.body.tool), result, sl.body.arguments, t)]

\* _make_request ends with `ret`; the tool function turns it into its own
\* result (lines 217-239), which mcp_post answers
Finish(sl, ret, t) ==
    Respond([sl EXCEPT !.adapter = ret],
            IF ret.how = "raise" THEN UnexpectedError(ret.what)
            ELSE ToolReturn(sl.tool_fn, sl.params, ret.r),
            t)

TimedOut ==
    APIResponse(FALSE, None, Some(Error("Request timed out after multiple attempts", {})), None)
RequestFailed(o, params) ==
    APIResponse(FALSE, None,
                Some(Error("API request failed", RequestExceptionText(o, params))), None)
AllRetriesFailed ==
    APIResponse(FALSE, None, Some(Error("All retry attempts failed", {})), None)

\* (mutant) the 429 branch has no `continue`: after its own sleep the
\* backoff at the end of the loop body sleeps again
AfterAttemptNoContinue(sl, o, t, dur) ==
    LET a == sl.attempt
        e == AttemptEnd(o)
        fn == sl.tool_fn
    IN  CASE e = "return" ->
                Finish(sl, Returned(SuccessResponse(o, Endpoint(fn), dur)), t)
          [] e = "raise" -> Finish(sl, Raised("AttributeError"), t)
          [] e = "wait429" ->
                IF a < MAX_RETRIES - 1
                THEN Sleep(Sleep(sl, Backoff(a), t), Backoff(a), t + Backoff(a) * 1000)
                ELSE Sleep(sl, Backoff(a), t)
          [] e = "timeout" ->
                IF a = MAX_RETRIES - 1 THEN Finish(sl, Returned(TimedOut), t)
                ELSE Sleep(sl, Backoff(a), t)
          [] e = "reqexc" ->
                IF a = MAX_RETRIES - 1 THEN Finish(sl, Returned(RequestFailed(o, sl.params)), t)
                ELSE Sleep(sl, Backoff(a), t)
          [] e = "fall" ->
                IF a < MAX_RETRIES - 1 THEN Sleep(sl, Backoff(a), t)
                ELSE Finish(sl, Returned(AllRetriesFailed), t)

\* (mutant) a timeout ends the invocation at once, whatever the attempt
AfterAttemptTimeoutFinal(sl, o, t, dur) ==
    LET a == sl.attempt
        e == AttemptEnd(o)
        fn == sl.tool_fn
    IN  CASE e = "return" ->
                Finish(sl, Returned(SuccessResponse(o, Endpoint(fn), dur)), t)
          [] e = "raise" -> Finish(sl, Raised("AttributeError"), t)
          [] e = "wait429" -> Sleep(sl, Backoff(a), t)
          [] e = "timeout" -> Finish(sl, Returned(TimedOut), t)
          [] e = "reqexc" ->
                IF a = MAX_RETRIES - 1 THEN Finish(sl, Returned(RequestFailed(o, sl.params)), t)
                ELSE Sleep(sl, Backoff(a), t)
          [] e = "fall" ->
                IF a < MAX_RETRIES - 1 THEN Sleep(sl, Backoff(a), t)
                ELSE Finish(sl, Returned(AllRetriesFailed), t)

\* One iteration of the retry loop after requests.get has returned or raised
\* (lines 148-184): sl is the invocation, o the outcome, t the time after the
\* call and dur the call's duration. The result is the invocation suspended
\* in a backoff sleep or responded.
AfterAttempt(sl, o, t, dur) ==
    LET a == sl.attempt
        e == AttemptEnd(o)
        fn == sl.tool_fn
    IN  CASE e = "return" ->
                Finish(sl, Returned(SuccessResponse(o, Endpoint(fn), dur)), t)
          [] e = "raise" -> Finish(sl, Raised("AttributeError"), t)
          [] e = "wait429" -> Sleep(sl, Backoff(a), t)
          [] e = "timeout" ->
                IF a = MAX_RETRIES - 1 THEN Finish(sl, Returned(TimedOut), t)
                ELSE Sleep(sl, Backoff(a), t)
          [] e = "reqexc" ->
                IF a = MAX_RETRIES - 1 THEN Finish(sl, Returned(RequestFailed(o, sl.params)), t)
                ELSE Sleep(sl, Backoff(a), t)
          [] e = "fall" ->
                IF a < MAX_RETRIES - 1 THEN Sleep(sl, Backoff(a), t)
                ELSE Finish(sl, Returned(AllRetriesFailed), t)

\* the start times of the last two outbound calls
Started(t) == IF Len(starts) < 2 THEN Append(starts, t) ELSE <<starts[2], t>>

\* One outbound attempt of invocation s (lines 139-146 and what follows it):
\* last_request_time is set, requests.get blocks for the call's duration.
DoAttempt(s, sl, o, d, op, getenv) ==
    LET dur == IF o.exc = "Timeout" THEN REQUEST_TIMEOUT_MS ELSE d
        sent == [sl EXCEPT !.http_calls = @ + 1,
                           !.outcomes = Append(@, o),
                           !.calls = Append(@, [endpoint |-> Endpoint(sl.tool_fn),
                                                params |-> sl.params,
                                                at |-> now])]
    IN  /\ last_request_time' = now
        /\ starts' = Started(now)
        /\ now' = now + dur
        /\ slots' = [slots EXCEPT ![s] = AfterAttempt(sent, o, now + dur, dur)]
        /\ ev' = Event(op, s, getenv, 1)

\* a step of invocation s that issues no outbound call
NoCall(s, sl, op, getenv) ==
    /\ slots' = [slots EXCEPT ![s] = sl]
    /\ ev' = Event(op, s, getenv, 0)
    /\ UNCHANGED <<now, last_request_time, starts>>

\* (mutant) the elapsed time is taken in milliseconds and compared with the
\* delay in seconds
MustWaitUnits(t, last) == (t - last) * 1000 < RATE_LIMIT_DELAY_MS

\* the rate limiter decides to suspend (lines 130-132)
MustWait(t, last) == t - last < RATE_LIMIT_DELAY_MS

\* NPSAPIClient._make_request up to its first suspension (lines 126-146)
make_request(s, sl, o, d, getenv) ==
    IF MustWait(now, last_request_time)
    THEN NoCall(s, [sl EXCEPT !.pc = "rate_wait",
                              !.wake = now + (RATE_LIMIT_DELAY_MS - (now - last_request_time)),
                              !.rate_wait = RATE_LIMIT_DELAY_MS - (now - last_request_time)],
                "mcp_post", getenv)
    ELSE DoAttempt(s, sl, o, d, "mcp_post", getenv)

\* (mutant) only an unset variable counts as absent
CredentialUnset(key) == IsNone(key)

\* `if not api_key` (line 197): os.getenv gives None for an unset variable,
\* and "" is falsy too
CredentialAbsent(key) == IsNone(key) \/ Val(key) = ""

\* (mutant) the credential read by the previous invocation is kept and reused
tool_function_cached(s, sl, o, d) ==
    LET api_key == IF IsNone(slots[s].api_key) THEN env_key ELSE slots[s].api_key
        read == [sl EXCEPT !.cred_reads = @ + 1, !.api_key = api_key]
    IN  IF CredentialAbsent(api_key)
        THEN NoCall(s, Respond(read, MissingCredential, now), "mcp_post", 1)
        ELSE make_request(s, [read EXCEPT !.params = BuildParams(Val(api_key), sl.args_model)],
                          o, d, 1)

\* get_park_data, get_passport_stamp_locations_data, get_park_activities_data
\* up to the first suspension (lines 192-218, 241-267, 292-316)
tool_function(s, sl, o, d) ==
    LET api_key == env_key
        read == [sl EXCEPT !.cred_reads = @ + 1, !.api_key = api_key]
    IN  IF CredentialAbsent(api_key)
        THEN NoCall(s, Respond(read, MissingCredential, now), "mcp_post", 1)
        ELSE make_request(s, [read EXCEPT !.params = BuildParams(Val(api_key), sl.args_model)],
                          o, d, 1)

\* `if not tool_name` (line 459): None and "" are falsy
ToolMissing(tool) == IsNone(tool) \/ Val(tool) = ""

\* (mutant) the credential gate placed before the validation of the arguments
dispatch_gate_first(s, body, o, d) ==
    LET v == ParkSearchArgs(body.arguments)
        fresh == [IdleSlot EXCEPT !.body = body]
        answer(r) == NoCall(s, [fresh EXCEPT !.pc = "responded", !.resp = r], "mcp_post", 0)
    IN  IF ToolMissing(body.tool)
        THEN answer(HTTPException(400, "Missing 'tool' parameter", {}))
        ELSE IF Val(body.tool) \notin DOMAIN registry
        THEN answer(HTTPException(404, "Tool not found. Available tools:",
                                  DOMAIN registry))
        ELSE IF CredentialAbsent(env_key)
        THEN NoCall(s, Respond([fresh EXCEPT !.cred_reads = 1, !.api_key = env_key],
                               MissingCredential, now), "mcp_post", 1)
        ELSE IF ~v.ok
        THEN answer(HTTPException(400, "Invalid arguments:", v.failed))
        ELSE tool_function(s, [fresh EXCEPT !.validated = TRUE,
                                            !.args_model = v.model,
                                            !.tool_fn = registry[Val(body.tool)].function],
                           o, d)

\* (mutant) the arguments are validated before the tool name is looked up
dispatch_validate_first(s, body, o, d) ==
    LET v == ParkSearchArgs(body.arguments)
        fresh == [IdleSlot EXCEPT !.body = body]
        answer(r) == NoCall(s, [fresh EXCEPT !.pc = "responded", !.resp = r], "mcp_post", 0)
    IN  IF ToolMissing(body.tool)
        THEN answer(HTTPException(400, "Missing 'tool' parameter", {}))
        ELSE IF ~v.ok
        THEN answer(HTTPException(400, "Invalid arguments:", v.failed))
        ELSE IF Val(body.tool) \notin DOMAIN registry
        THEN answer(HTTPException(404, "Tool not found. Available tools:",
                                  DOMAIN registry))
        ELSE tool_function(s, [fresh EXCEPT !.validated = TRUE,
                                            !.args_model = v.model,
                                            !.tool_fn = registry[Val(body.tool)].function],
                           o, d)

\* The body of mcp_post (lines 456-482): the tool name is looked up, the
\* arguments are validated, and the tool function is called.
dispatch(s, body, o, d) ==
    LET v == ParkSearchArgs(body.arguments)
        fresh == [IdleSlot EXCEPT !.body = body]
        answer(r) == NoCall(s, [fresh EXCEPT !.pc = "responded", !.resp = r], "mcp_post", 0)
    IN  IF ToolMissing(body.tool)
        THEN answer(HTTPException(400, "Missing 'tool' parameter", {}))
        ELSE IF Val(body.tool) \notin DOMAIN registry
        THEN answer(HTTPException(404, "Tool not found. Available tools:",
                                  DOMAIN registry))
        ELSE IF ~v.ok
        THEN answer(HTTPException(400, "Invalid arguments:", v.failed))
        ELSE tool_function(s, [fresh EXCEPT !.validated = TRUE,
                                            !.args_model = v.model,
                                            !.tool_fn = registry[Val(body.tool)].function],
                           o, d)

\* (mutant) a tool is removed from the registry once it has been invoked
mcp_post_unregisters(s, body, o, d) ==
    /\ slots[s].pc \in {"idle", "responded"}
    /\ UNCHANGED <<env_key, reply, nps, stdio>>
    /\ registry' = IF ToolMissing(body.tool) THEN registry
                   ELSE [n \in DOMAIN registry \ {Val(body.tool)} |-> registry[n]]
    /\ dispatch(s, body, o, d)

\* POST /mcp (lines 447-503) up to the first suspension of the coroutine.
\* body is the request's JSON object, o and d the outcome and the duration
\* of the first outbound attempt if one is made in this step.
mcp_post(s, body, o, d) ==
    /\ slots[s].pc \in {"idle", "responded"}
    /\ UNCHANGED <<env_key, registry, reply, nps, stdio>>
    /\ dispatch(s, body, o, d)

\* The coroutine of invocation s runs again after its sleep has ended: the
\* first attempt after the rate-limit wait, the next attempt after a backoff,
\* or the end of the loop (line 186) after the backoff of the last attempt.
\* variant: a coroutine suspended on the rate-limit sleep is never run again
ResumeBackoffOnly(s, o, d) ==
    /\ slots[s].pc = "backoff"
    /\ now >= slots[s].wake
    /\ UNCHANGED <<env_key, registry, reply, nps, stdio>>
    /\ IF slots[s].attempt + 1 < MAX_RETRIES
       THEN DoAttempt(s, [slots[s] EXCEPT !.attempt = @ + 1], o, d, "resume", 0)
       ELSE NoCall(s, Finish(slots[s], Returned(AllRetriesFailed), now), "resume", 0)

Resume(s, o, d) ==
    /\ slots[s].pc \in {"rate_wait", "backoff"}
    /\ now >= slots[s].wake
    /\ UNCHANGED <<env_key, registry, reply, nps, stdio>>
    /\ IF slots[s].pc = "rate_wait"
       THEN DoAttempt(s, slots[s], o, d, "resume", 0)
       ELSE IF slots[s].attempt + 1 < MAX_RETRIES
       THEN DoAttempt(s, [slots[s] EXCEPT !.attempt = @ + 1], o, d, "resume", 0)
       ELSE NoCall(s, Finish(slots[s], Returned(AllRetriesFailed), now), "resume", 0)

\* the response_data of GET /mcp (lines 401-432)
DiscoveryResponse ==
    [http |-> 200,
     body |-> [kind |-> "discovery",
               server |-> "nps-info-server",
               status |-> "ready",
               tools |-> {[name |-> registry[n].name,
                           description |-> registry[n].description,
                           inputSchema |-> registry[n].input_schema] :
                          n \in DOMAIN registry},
               total_tools |-> Cardinality(DOMAIN registry)]]

\* (mutant) discovery answers only when the credential is configured
mcp_get_gated ==
    /\ reply' = IF CredentialAbsent(env_key)
                THEN [http |-> 500, body |-> [kind |-> "error", status |-> "error", tools |-> {}]]
                ELSE DiscoveryResponse
    /\ ev' = Event("mcp_get", 0, 1, 0)
    /\ UNCHANGED <<now, env_key, registry, last_request_time, slots, starts, nps, stdio>>

\* GET /mcp (lines 394-445)
mcp_get ==
    /\ reply' = DiscoveryResponse
    /\ ev' = Event("mcp_get", 0, 0, 0)
    /\ UNCHANGED <<now, env_key, registry, last_request_time, slots, starts, nps, stdio>>

\* TOOLS_REGISTRY of src/nps.py (lines 97-144)
NpsToolNames == {"get_park", "get_passport_stamp_locations"}
NPS_TOOLS_REGISTRY ==
    [n \in NpsToolNames |->
        [name |-> n,
         description |-> <<"description of", n>>,
         function |-> ToolFunction(n),
         input_schema |-> <<"object", {"park_code", "state_code", "search_term"}>>]]

\* GET /mcp of src/nps.py (lines 147-170)
NpsDiscoveryResponse ==
    [http |-> 200,
     body |-> [kind |-> "discovery",
               server |-> "nps-info-server",
               status |-> "ready",
               tools |-> {[name |-> NPS_TOOLS_REGISTRY[n].name,
                           description |-> NPS_TOOLS_REGISTRY[n].description,
                           inputSchema |-> NPS_TOOLS_REGISTRY[n].input_schema] :
                          n \in DOMAIN NPS_TOOLS_REGISTRY}]]

nps_mcp_get ==
    /\ reply' = NpsDiscoveryResponse
    /\ ev' = Event("nps_mcp_get", 0, 0, 0)
    /\ UNCHANGED <<now, env_key, registry, last_request_time, slots, starts, nps, stdio>>

\* (mutant) every value of the variable counts as configured, "" included
ApiKeyPresent(key) == ~IsNone(key)

\* bool(os.getenv("NPS_API_KEY")) (src/dep.py line 520, src/nps.py line 226)
ApiKeyConfigured(key) == ~IsNone(key) /\ Val(key) # ""

\* health_data of GET /health (src/dep.py lines 522-538), without its
\* timestamp and the constant keys server, version and nps_api_accessible
HealthResponse ==
    [http |-> 200,
     body |-> [kind |-> "health",
               status |-> "healthy",
               api_key_configured |-> ApiKeyConfigured(env_key),
               tools_available |-> Cardinality(DOMAIN registry),
               lazy_loading |-> TRUE,
               retry_attempts |-> MAX_RETRIES,
               request_timeout |-> REQUEST_TIMEOUT_MS,
               rate_limit_delay |-> RATE_LIMIT_DELAY_MS]]

\* GET /health (src/dep.py lines 517-540)
health_check ==
    /\ reply' = HealthResponse
    /\ ev' = Event("health_check", 0, 1, 0)
    /\ UNCHANGED <<now, env_key, registry, last_request_time, slots, starts, nps, stdio>>

\* GET /health of src/nps.py (lines 219-229)
NpsHealthResponse ==
    [http |-> 200,
     body |-> [kind |-> "health",
               status |-> "healthy",
               api_key_configured |-> ApiKeyConfigured(env_key),
               tools_count |-> Cardinality(DOMAIN NPS_TOOLS_REGISTRY)]]

nps_health_check ==
    /\ reply' = NpsHealthResponse
    /\ ev' = Event("nps_health_check", 0, 1, 0)
    /\ UNCHANGED <<now, env_key, registry, last_request_time, slots, starts, nps, stdio>>

\* the content of DELETE /mcp (src/dep.py lines 509-513), without its
\* timestamp
CleanupResponse ==
    [http |-> 200,
     body |-> [kind |-> "cleanup",
               status |-> "cleaned",
               message |-> "Server state reset successfully"]]

\* (mutant) the cleanup resets the adapter's rate-limit clock
mcp_delete_resets ==
    /\ reply' = CleanupResponse
    /\ last_request_time' = 0
    /\ ev' = Event("mcp_delete", 0, 0, 0)
    /\ UNCHANGED <<now, env_key, registry, slots, starts, nps, stdio>>

\* DELETE /mcp (src/dep.py lines 505-513)
mcp_delete ==
    /\ reply' = CleanupResponse
    /\ ev' = Event("mcp_delete", 0, 0, 0)
    /\ UNCHANGED <<now, env_key, registry, last_request_time, slots, starts, nps, stdio>>

\* DELETE /mcp of src/nps.py (lines 210-216)
NpsCleanupResponse ==
    [http |-> 200,
     body |-> [kind |-> "cleanup",
               status |-> "cleaned",
               message |-> "Server state reset"]]

nps_mcp_delete ==
    /\ reply' = NpsCleanupResponse
    /\ ev' = Event("nps_mcp_delete", 0, 0, 0)
    /\ UNCHANGED <<now, env_key, registry, last_request_time, slots, starts, nps, stdio>>

-----------------------------------------------------------------------------
\* The gateway of src/nps.py: POST /mcp

\* ParkModelArgs(**args) (src/nps.py lines 22-25, 198). The three fields are
\* declared Optional[str] = Field(description=...), without a default: the
\* pydantic the build installs decides whether a missing key is None or a
\* ValidationError, so `required` is chosen by the environment. A key the
\* model does not declare (limit) is ignored.
NpsParkModelArgs(args, required) ==
    [ok |-> ~required \/ \A f \in {"park_code", "state_code", "search_term"} :
                            args[f].k # "missing",
     model |-> [park_code |-> StrField(args.park_code),
                state_code |-> StrField(args.state_code),
                search_term |-> StrField(args.search_term)]]

\* params without the None values (src/nps.py lines 38-44)
NpsParams(api_key, a) ==
    LET all == [parkCode |-> a.park_code, stateCode |-> a.state_code,
                q |-> a.search_term, api_key |-> Some(api_key)]
    IN  [k \in {k \in DOMAIN all : ~IsNone(all[k])} |-> Val(all[k])]

NpsEndpoint(fn) ==
    CASE fn = "get_park_data" -> "parks"
      [] fn = "get_passport_stamp_locations_data" -> "passportstamplocations"

\* what a tool function of src/nps.py returns: {"error": ...} or the parsed
\* body
NpsErrorResult(msg, mentions) == [kind |-> "error", error |-> Error(msg, mentions)]
NpsDataResult(body) == [kind |-> "data", body |-> body]

\* requests.get, raise_for_status and response.json() of one tool function
\* (src/nps.py lines 49-54): every RequestException (timeout, connection
\* failure, HTTPError of a status >= 400, JSONDecodeError of a body that is
\* no JSON) gives {"error": str(err)}
NpsCallResult(o, params) ==
    IF o.exc = "Timeout" THEN NpsErrorResult("str(err)", {"timeout"})
    ELSE IF o.exc = "ConnectionError" THEN NpsErrorResult("str(err)", {params.api_key})
    ELSE IF o.status >= 400
    THEN NpsErrorResult("str(err)", {StatusText(o.status), params.api_key})
    ELSE IF o.body.json \in {"object", "array"} THEN NpsDataResult(o.body)
    ELSE NpsErrorResult("str(err)", {"JSONDecodeError"})

\* get_park_data and get_passport_stamp_locations_data of src/nps.py
\* (lines 28-54 and 56-82): the result and the outbound calls made
nps_tool_function(fn, a, o) ==
    IF CredentialAbsent(env_key)
    THEN [result |-> NpsErrorResult("NPS_API_KEY environment variable is required",
                                    {SETUP_URL}),
          calls |-> <<>>]
    ELSE LET params == NpsParams(Val(env_key), a)
         IN  [result |-> NpsCallResult(o, params),
              calls |-> <<[endpoint |-> NpsEndpoint(fn), query |-> params]>>]

\* `raise HTTPException(status, detail)` inside the try block of mcp_post is
\* caught by its `except Exception` (src/nps.py lines 207-208), which raises
\* HTTPException(500, detail=str(e)) instead; so is the ValidationError of
\* ParkModelArgs. raised is the status of the exception caught (0 for one
\* that is no HTTPException).
NpsInternalError(raised, detail, names) ==
    [http |-> 500,
     body |-> [kind |-> "detail", raised |-> raised, detail |-> detail, names |-> names]]

\* the dict mcp_post returns (src/nps.py lines 201-205)
NpsEnvelope(tool, result) ==
    [http |-> 200,
     body |-> [kind |-> "envelope", tool |-> tool, result |-> result,
               status |-> "success"]]

NoNpsInvocation == [req |-> NoRequest, calls |-> <<>>, resp |-> NoResp]

\* POST /mcp of src/nps.py (lines 172-208). The tool functions are
\* synchronous: the handler runs to its response in one step.
nps_mcp_post(body, o, required) ==
    LET v == NpsParkModelArgs(body.arguments, required)
        answer(r, calls, getenv) ==
            /\ nps' = [req |-> body, calls |-> calls, resp |-> r]
            /\ ev' = Event("nps_mcp_post", 0, getenv, Len(calls))
    IN  /\ IF ToolMissing(body.tool)
           THEN answer(NpsInternalError(400, "Missing 'tool' parameter", {}), <<>>, 0)
           ELSE IF Val(body.tool) \notin DOMAIN NPS_TOOLS_REGISTRY
           THEN answer(NpsInternalError(404, "Tool not found. Available tools:",
                                        DOMAIN NPS_TOOLS_REGISTRY), <<>>, 0)
           ELSE IF ~v.ok
           THEN answer(NpsInternalError(0, "ValidationError", {}), <<>>, 0)
           ELSE LET t == nps_tool_function(NPS_TOOLS_REGISTRY[Val(body.tool)].function,
                                           v.model, o)
                IN  answer(NpsEnvelope(Val(body.tool), t.result), t.calls, 1)
        /\ UNCHANGED <<now, env_key, registry, last_request_time, slots, starts, reply, stdio>>

-----------------------------------------------------------------------------
\* The stdio server (src/server.py) and its adapters (src/src/api_utils.py)

\* ParkModelArgs (src/src/models.py lines 5-8)
ParkModelArgs(p, st, q) == [park_code |-> p, state_code |-> st, search_term |-> q]
\* GeneralModelArgs: imported by src/src/api_utils.py line 4, defined
\* nowhere in the source; its two fields are those the adapter reads
GeneralModelArgs(id, q) == [id |-> id, search_term |-> q]

\* requests.get(client_url, params=params): a parameter whose value is None
\* is left out of the query string
Query(params) == [k \in {k \in DOMAIN params : ~IsNone(params[k])} |-> Val(params[k])]

\* try/except of the adapters (api_utils.py lines 17-22): as in src/nps.py
AdapterResult(o) ==
    IF o.exc # "" \/ o.status >= 400 \/ o.body.json \notin {"object", "array"}
    THEN [kind |-> "error"]
    ELSE [kind |-> "data", body |-> o.body]

\* nps_get_park (api_utils.py lines 6-22): no credential gate, the call is
\* always made
nps_get_park(a, o) ==
    LET params == [parkCode |-> a.park_code, stateCode |-> a.state_code,
                   q |-> a.search_term, api_key |-> env_key]
    IN  [result |-> AdapterResult(o), calls |-> <<[path |-> None, query |-> Query(params)]>>]

\* nps_get_general (api_utils.py lines 25-40)
nps_get_general(a, o) ==
    LET params == [id |-> a.id, q |-> a.search_term, api_key |-> env_key]
    IN  [result |-> AdapterResult(o), calls |-> <<[path |-> None, query |-> Query(params)]>>]

\* nps_get_map_metadata (api_utils.py lines 42-57): `client_url +
\* args.park_code` raises TypeError for None, outside the try block
nps_get_map_metadata(a, o) ==
    LET params == [parkCode |-> a.park_code]
    IN  IF IsNone(a.park_code)
        THEN [result |-> [kind |-> "raise", what |-> "TypeError"], calls |-> <<>>]
        ELSE [result |-> AdapterResult(o),
              calls |-> <<[path |-> a.park_code, query |-> Query(params)]>>]

NoStdioCall == [adapter |-> "", args |-> ParkModelArgs(None, None, None),
                key |-> None, calls |-> <<>>, result |-> [kind |-> "none"]]

\* one tool of src/server.py (lines 20-278): `return await adapter(args,
\* client_url)`; key is NPS_API_KEY as the adapter found it
stdio_tool(adapter, a, o) ==
    LET r == CASE adapter = "nps_get_park" -> nps_get_park(a, o)
               [] adapter = "nps_get_general" -> nps_get_general(a, o)
               [] adapter = "nps_get_map_metadata" -> nps_get_map_metadata(a, o)
    IN  /\ stdio' = [adapter |-> adapter, args |-> a, key |-> env_key,
                     calls |-> r.calls, result |-> r.result]
        /\ ev' = Event("stdio_tool", 0,
                       IF adapter = "nps_get_map_metadata" THEN 0 ELSE 1, Len(r.calls))
        /\ UNCHANGED <<now, env_key, registry, last_request_time, slots, starts, reply, nps>>

\* the environment sets, replaces or removes NPS_API_KEY
EnvKeys == {None, Some(""), Some("key1"), Some("key2")}
SetEnv(k) ==
    /\ k # env_key
    /\ env_key' = k
    /\ ev' = Event("setenv", 0, 0, 0)
    /\ UNCHANGED <<now, registry, last_request_time, slots, starts, reply, nps, stdio>>

\* time passes: by one step while the horizon is not reached, or up to the
\* moment a suspended coroutine is due
TimeStep == 50
Sleeping(S) == {s \in S : slots[s].pc \in {"rate_wait", "backoff"}}
Elapse(S, horizon) ==
    /\ \E t \in {now + TimeStep} \cup {slots[s].wake : s \in Sleeping(S)} :
          /\ t > now
          /\ t <= horizon \/ \E s \in Sleeping(S) : t = slots[s].wake
          /\ now' = t
    /\ ev' = Event("elapse", 0, 0, 0)
    /\ UNCHANGED <<env_key, registry, last_request_time, slots, starts, reply, nps, stdio>>

InitOver(S) ==
    /\ now = StartTime
    /\ env_key \in EnvKeys
    /\ registry = TOOLS_REGISTRY
    /\ last_request_time = 0
    /\ slots = [s \in S |-> IdleSlot]
    /\ starts = <<>>
    /\ reply = NoResp
    /\ ev = Event("init", 0, 0, 0)
    /\ nps = NoNpsInvocation
    /\ stdio = NoStdioCall

-----------------------------------------------------------------------------
\* Inputs

Args(p, st, q, l) == [park_code |-> p, state_code |-> st, search_term |-> q, limit |-> l]
Request(tool, args) == [tool |-> tool, arguments |-> args]

ToolInputs == {None, Some(""), Some("get_parks")} \cup {Some(n) : n \in ToolNames}

\* every string up to MaxStrLen for park_code and state_code, the limits
\* around both ends of [1,50]
JStrs == {JMissing, JNull} \cup {JVal(x) : x \in Strs}
JSearchTerms == {JMissing, JVal(<<>>), JVal(<<"a">>)}
JLimits == {JMissing, JNull}
           \cup {JVal(n) : n \in {LIMIT_GE - 1, LIMIT_GE, 5, LIMIT_LE, LIMIT_LE + 1}}
AllArgs == {Args(p, st, q, l) : p \in JStrs, st \in JStrs, q \in JSearchTerms, l \in JLimits}
AllRequests == {Request(t, a) : t \in ToolInputs, a \in AllArgs}

\* a few argument sets: {}, {"state_code": "ca", "limit": 5},
\* {"park_code": "Yo", "search_term": "a", "limit": null},
\* {"state_code": "c"}, {"state_code": "", "limit": 51}
SampleArgs ==
    {Args(JMissing, JMissing, JMissing, JMissing),
     Args(JMissing, JVal(<<"a", "A">>), JMissing, JVal(5)),
     Args(JVal(<<"A", "a">>), JMissing, JVal(<<"a">>), JNull),
     Args(JMissing, JVal(<<"a">>), JMissing, JMissing),
     Args(JMissing, JVal(<<>>), JMissing, JVal(LIMIT_LE + 1))}
SampleRequests == {Request(t, a) : t \in ToolInputs, a \in SampleArgs}

\* durations of an outbound call, shorter and longer than RATE_LIMIT_DELAY
Durations == {20, 150}
\* requests arrive until one rate-limit interval after the start
Horizon == StartTime + RATE_LIMIT_DELAY_MS

Free(s) == slots[s].pc \in {"idle", "responded"}
Suspended(s) == slots[s].pc \in {"rate_wait", "backoff"} /\ now >= slots[s].wake

-----------------------------------------------------------------------------
\* Spec: the gateway serving one invocation at a time.

One == {1}

GatewayOutcomes == {Response(200, BodyPlain), Response(200, BodyStringTags),
                    Response(429, NoBody), Response(500, NoBody)}

Init == InitOver(One)

Next ==
    \/ /\ Free(1) /\ now <= Horizon
       /\ \E b \in SampleRequests, o \in GatewayOutcomes : mcp_post(1, b, o, 20)
    \/ /\ Suspended(1)
       /\ \E o \in GatewayOutcomes : Resume(1, o, 20)
    \/ mcp_get
    \/ nps_mcp_get
    \/ \E k \in EnvKeys : SetEnv(k)
    \/ Elapse(One, Horizon)

Spec == Init /\ [][Next]_vars

\* SpecArgs: one invocation with every argument set, the upstream answering
\* HTTP 200 with a JSON object.

NextArgs ==
    /\ slots[1].pc = "idle"
    /\ \E b \in AllRequests, o \in Provider200 : mcp_post(1, b, o, 20)

SpecArgs == Init /\ [][NextArgs]_vars

\* SpecRetry: one invocation of each tool with a configured credential,
\* every upstream outcome at every attempt.

RetryRequests ==
    {Request(Some(n), a) : n \in ToolNames,
                           a \in {Args(JMissing, JMissing, JMissing, JMissing),
                                  Args(JMissing, JVal(<<"a", "A">>), JMissing, JVal(5))}}

InitRetry == InitOver(One) /\ env_key = Some("key1")

NextRetry ==
    \/ /\ slots[1].pc = "idle"
       /\ \E b \in RetryRequests, o \in AllOutcomes, d \in Durations : mcp_post(1, b, o, d)
    \/ /\ Suspended(1)
       /\ \E o \in AllOutcomes, d \in Durations : Resume(1, o, d)
    \/ Elapse(One, StartTime)

SpecRetry == InitRetry /\ [][NextRetry]_vars

\* SpecConc: two invocations in flight on the one event loop.

Two == {1, 2}

ConcRequests ==
    {Request(Some("get_park"), Args(JMissing, JMissing, JMissing, JMissing)),
     Request(Some("get_park_activities"),
             Args(JMissing, JVal(<<"a", "A">>), JMissing, JVal(5)))}
ConcOutcomes == {Response(200, BodyPlain), Response(429, NoBody)}

InitConc == InitOver(Two) /\ env_key = Some("key1")

NextConc ==
    \/ \E s \in Two :
          /\ Free(s) /\ now <= Horizon
          /\ \E b \in ConcRequests, o \in ConcOutcomes : mcp_post(s, b, o, 20)
    \/ \E s \in Two :
          /\ Suspended(s)
          /\ \E o \in ConcOutcomes : Resume(s, o, 20)
    \/ mcp_get
    \/ Elapse(Two, Horizon)

SpecConc == InitConc /\ [][NextConc]_vars

\* SpecLive: two invocations in flight with the scheduling of the event
\* loop: a coroutine whose sleep has ended is run again (every outbound call
\* returns or times out within its step), and time does not stop while a
\* coroutine sleeps. Requests arrive while the first call is under way.

LiveRequests == {Request(Some("get_park"), Args(JMissing, JMissing, JMissing, JMissing))}
LiveOutcomes == {Response(200, BodyPlain), Response(429, NoBody), Timeout}
LiveHorizon == StartTime + 20

NextLive ==
    \/ \E s \in Two :
          /\ Free(s) /\ now <= LiveHorizon
          /\ \E b \in LiveRequests, o \in LiveOutcomes : mcp_post(s, b, o, 20)
    \/ \E s \in Two :
          /\ Suspended(s)
          /\ \E o \in LiveOutcomes : Resume(s, o, 20)
    \/ Elapse(Two, LiveHorizon)

FairLive ==
    /\ \A s \in Two : WF_vars(Suspended(s) /\ \E o \in LiveOutcomes : Resume(s, o, 20))
    /\ WF_vars(Elapse(Two, LiveHorizon))

SpecLive == InitConc /\ [][NextLive]_vars /\ FairLive

\* SpecServer: every request of the gateway (discovery, health, cleanup,
\* invocation) with two invocations in flight and a changing environment.

ServerRequests ==
    {Request(Some("get_park"), Args(JMissing, JMissing, JMissing, JMissing)),
     Request(Some("get_parks"), Args(JMissing, JMissing, JMissing, JMissing)),
     Request(Some("get_park_activities"),
             Args(JMissing, JVal(<<"a">>), JMissing, JMissing))}
ServerOutcomes == {Response(200, BodyPlain), Response(200, BodyStringTags)}
ServerKeys == {None, Some(""), Some("key1")}

InitServer == InitOver(Two) /\ env_key \in ServerKeys

NextServer ==
    \/ \E s \in Two :
          /\ Free(s) /\ now <= Horizon
          /\ \E b \in ServerRequests, o \in ServerOutcomes : mcp_post(s, b, o, 20)
    \/ \E s \in Two :
          /\ Suspended(s)
          /\ \E o \in ServerOutcomes : Resume(s, o, 20)
    \/ mcp_get
    \/ health_check
    \/ nps_health_check
    \/ mcp_delete
    \/ nps_mcp_delete
    \/ \E k \in ServerKeys : SetEnv(k)
    \/ Elapse(Two, Horizon)

SpecServer == InitServer /\ [][NextServer]_vars

\* SpecNps: the gateway of src/nps.py.

NpsToolInputs == {None, Some(""), Some("get_parks")} \cup {Some(n) : n \in NpsToolNames}
NpsRequests == {Request(t, a) : t \in NpsToolInputs, a \in SampleArgs}
               \cup {Request(Some("get_park"),
                              Args(JVal(<<"a", "a">>), JNull, JNull, JMissing))}
NpsOutcomes == {Response(200, BodyPlain), Response(200, BodyInvalid),
                Response(500, NoBody), Timeout, ConnectionError}

NextNps ==
    \/ \E b \in NpsRequests, o \in NpsOutcomes, required \in BOOLEAN :
          nps_mcp_post(b, o, required)
    \/ nps_mcp_get
    \/ nps_health_check
    \/ nps_mcp_delete
    \/ \E k \in EnvKeys : SetEnv(k)

SpecNps == Init /\ [][NextNps]_vars

\* SpecStdio: the tools of the stdio server, one call at a time.

OptStrs == {None, Some(<<>>), Some(<<"a", "a">>)}
ParkArgSets == {ParkModelArgs(p, st, q) : p \in OptStrs, st \in {None, Some(<<"A", "A">>)},
                                          q \in {None, Some(<<"a">>)}}
GeneralArgSets == {GeneralModelArgs(id, q) : id \in OptStrs, q \in {None, Some(<<"a">>)}}
StdioOutcomes == {Response(200, BodyPlain), Response(200, BodyInvalid),
                  Response(403, NoBody), Timeout, ConnectionError}

NextStdio ==
    \/ \E a \in ParkArgSets, o \in StdioOutcomes : stdio_tool("nps_get_park", a, o)
    \/ \E a \in GeneralArgSets, o \in StdioOutcomes : stdio_tool("nps_get_general", a, o)
    \/ \E a \in ParkArgSets, o \in StdioOutcomes : stdio_tool("nps_get_map_metadata", a, o)
    \/ \E k \in EnvKeys : SetEnv(k)

SpecStdio == Init /\ [][NextStdio]_vars

\* SpecNorm: one invocation whose park_code and state_code range over every
\* string of the wide alphabet, with a configured credential and the
\* upstream answering HTTP 200.

NormStrs == {JMissing} \cup {JVal(x) : x \in WideStrs}
NormRequests ==
    {Request(Some(n), Args(p, st, JMissing, JMissing)) :
        n \in ToolNames, p \in NormStrs, st \in NormStrs}

InitNorm == InitOver(One) /\ env_key = Some("key1")

NextNorm ==
    /\ slots[1].pc = "idle"
    /\ \E b \in NormRequests : mcp_post(1, b, Response(200, BodyPlain), 20)

SpecNorm == InitNorm /\ [][NextNorm]_vars

-----------------------------------------------------------------------------
\* Properties

\* the request of invocation 1, described from what the caller sent
Req == slots[1].body
Registered(b) ==
    /\ ~IsNone(b.tool)
    /\ Val(b.tool) \in {"get_park", "get_passport_stamp_locations", "get_park_activities"}
BadStateCode(a) == a.state_code.k = "val" /\ Len(a.state_code.v) \notin {0, 2}
BadParkCode(a) == a.park_code.k = "val" /\ Len(a.park_code.v) = 1
BadLimit(a) == a.limit.k = "val" /\ (a.limit.v < 1 \/ a.limit.v > 50)
InvalidArgs(a) == BadStateCode(a) \/ BadParkCode(a) \/ BadLimit(a)
Accepted(sl) == sl.pc # "idle"

InvalidArgumentsFailure(r) ==
    r.http = 400 /\ r.body.kind = "detail" /\ r.body.detail = "Invalid arguments:"

\* C1: whatever the credential, a discovery request is answered 200 with
\* status "ready" and exactly one entry (name, description, inputSchema) per
\* key of TOOLS_REGISTRY, and the step that handles it reads no credential,
\* issues no outbound call and leaves the adapter and the invocations alone;
\* the same for the discovery of src/nps.py.
C1_DiscoveryWithoutCredential ==
    [][/\ ev'.op = "mcp_get" =>
            /\ reply'.http = 200
            /\ reply'.body.status = "ready"
            /\ reply'.body.tools =
                  {[name |-> n,
                    description |-> TOOLS_REGISTRY[n].description,
                    inputSchema |-> TOOLS_REGISTRY[n].input_schema] : n \in ToolNames}
            /\ Cardinality(reply'.body.tools) = Cardinality(ToolNames)
            /\ ev'.getenv = 0 /\ ev'.http = 0
            /\ UNCHANGED <<now, last_request_time, starts, slots, env_key>>
       /\ ev'.op = "nps_mcp_get" =>
            /\ reply'.http = 200
            /\ reply'.body.status = "ready"
            /\ {t.name : t \in reply'.body.tools} = NpsToolNames
            /\ Cardinality(reply'.body.tools) = Cardinality(NpsToolNames)
            /\ ev'.getenv = 0 /\ ev'.http = 0
            /\ UNCHANGED <<now, last_request_time, starts, slots, env_key>>]_vars

\* discovery was served while NPS_API_KEY is unset
C1_Witness ==
    /\ ev.op = "mcp_get"
    /\ env_key = None
    /\ reply.body.status = "ready"
    /\ Cardinality(reply.body.tools) = 3

\* C2: a registered tool invoked with valid arguments while NPS_API_KEY is
\* unset or empty is answered 400 with envelope status "error", a result
\* with success=false whose error names the setup URL and whose metadata has
\* setup_url; no outbound call was made and the rate-limit clock is
\* untouched.
C2_MissingCredential ==
    LET sl == slots[1]
        r == sl.resp.body.result
    IN  (Accepted(sl) /\ Registered(Req) /\ ~InvalidArgs(Req.arguments)
         /\ env_key \in {None, Some("")}) =>
            /\ sl.pc = "responded"
            /\ sl.resp.http = 400
            /\ sl.resp.body.kind = "envelope"
            /\ sl.resp.body.status = "error"
            /\ ~r.success
            /\ ~IsNone(r.error) /\ SETUP_URL \in Val(r.error).mentions
            /\ ~IsNone(r.metadata) /\ Val(r.metadata).setup_url = SETUP_URL
            /\ sl.http_calls = 0 /\ sl.calls = <<>>
            /\ last_request_time = 0 /\ starts = <<>>

\* get_park_activities invoked with an empty NPS_API_KEY
C2_Witness ==
    /\ Accepted(slots[1])
    /\ Req.tool = Some("get_park_activities")
    /\ ~InvalidArgs(Req.arguments)
    /\ Req.arguments.state_code.k = "val"
    /\ env_key = Some("")
    /\ slots[1].resp.http = 400

\* C3: a registered tool invoked with arguments that fail validation is
\* answered 400 "Invalid arguments:" without the credential being read and
\* without an outbound call, also when the credential is absent.
C3_ValidationBeforeCredential ==
    LET sl == slots[1]
    IN  (Accepted(sl) /\ Registered(Req) /\ InvalidArgs(Req.arguments)) =>
            /\ sl.pc = "responded"
            /\ InvalidArgumentsFailure(sl.resp)
            /\ sl.cred_reads = 0
            /\ ev.getenv = 0
            /\ sl.http_calls = 0 /\ starts = <<>>

\* invalid arguments and no credential at once
C3_Witness ==
    /\ Accepted(slots[1]) /\ Registered(Req)
    /\ BadParkCode(Req.arguments)
    /\ env_key = None
    /\ InvalidArgumentsFailure(slots[1].resp)

\* C4 (as claimed): an attempt that receives a status other than 2xx and 429
\* is the invocation's last attempt: the adapter returns success=false with
\* the status in its error, with no backoff sleep after that attempt.
C4_NoRetryOnErrorStatus ==
    LET sl == slots[1]
    IN  \A i \in 1..Len(sl.outcomes) :
            IsErrorStatus(sl.outcomes[i]) =>
                /\ i = Len(sl.outcomes)
                /\ sl.pc = "responded"
                /\ Len(sl.slept) = i - 1
                /\ sl.adapter.how = "return"
                /\ ~sl.adapter.r.success
                /\ StatusText(sl.outcomes[i].status) \in Val(sl.adapter.r.error).mentions

\* C5: 429, 429, then 200 with a JSON object: the adapter returns
\* success=true after exactly 3 outbound attempts, having slept 1 s after
\* the first and 2 s after the second and no other backoff.
Is429(o) == o.exc = "" /\ o.status = 429
C5_TwoRateLimitsThenSuccess ==
    LET sl == slots[1]
    IN  (Len(sl.outcomes) = 3 /\ Is429(sl.outcomes[1]) /\ Is429(sl.outcomes[2])
         /\ IsJsonObject200(sl.outcomes[3])) =>
            /\ sl.pc = "responded"
            /\ sl.adapter.how = "return"
            /\ sl.adapter.r.success
            /\ sl.http_calls = 3 /\ Len(sl.calls) = 3
            /\ sl.slept = <<1, 2>>
            /\ sl.calls[2].at >= sl.calls[1].at + 1000
            /\ sl.calls[3].at >= sl.calls[2].at + 2000

C5_Witness ==
    LET sl == slots[1]
    IN  /\ Len(sl.outcomes) = 3 /\ Is429(sl.outcomes[1]) /\ Is429(sl.outcomes[2])
        /\ IsJsonObject200(sl.outcomes[3])
        /\ sl.adapter.how = "return" /\ sl.adapter.r.success

\* C6 (as claimed): no two outbound calls are started less than
\* RATE_LIMIT_DELAY apart, whatever the interleaving of the invocations.
C6_SpacingUnderConcurrency ==
    Len(starts) = 2 => starts[2] - starts[1] >= RATE_LIMIT_DELAY_MS

\* C7 (as claimed): a tool name that is no key of TOOLS_REGISTRY is answered
\* 404 with a payload that lists every registered tool name, and nothing is
\* validated, read or sent.
C7_UnknownToolListsNames ==
    LET sl == slots[1]
    IN  (Accepted(sl) /\ ~IsNone(Req.tool) /\ Val(Req.tool) # ""
         /\ ~Registered(Req)) =>
            /\ sl.resp.http = 404
            /\ ToolNames \subseteq sl.resp.body.names
            /\ ~sl.validated /\ sl.cred_reads = 0 /\ sl.http_calls = 0

C9_LimitOutOfRangeRejected ==
    LET sl == slots[1]
    IN  (Accepted(sl) /\ Registered(Req) /\ Req.arguments.limit.k = "val"
         /\ (Req.arguments.limit.v < 1 \/ Req.arguments.limit.v > 50)) =>
            /\ sl.pc = "responded"
            /\ InvalidArgumentsFailure(sl.resp)
            /\ "limit" \in sl.resp.body.names
            /\ ~sl.validated
            /\ sl.http_calls = 0 /\ sl.calls = <<>> /\ starts = <<>>

\* limit 51 with otherwise valid arguments was rejected
C9_Witness ==
    /\ Accepted(slots[1]) /\ Registered(Req)
    /\ Req.arguments.limit = JVal(51)
    /\ ~BadParkCode(Req.arguments) /\ ~BadStateCode(Req.arguments)
    /\ InvalidArgumentsFailure(slots[1].resp)
    /\ slots[1].resp.body.names = {"limit"}

\* the parameters the claim expects for the caller's arguments
ExpectedEndpoint(tool) ==
    CASE tool = "get_park" -> "parks"
      [] tool = "get_passport_stamp_locations" -> "passportstamplocations"
      [] tool = "get_park_activities" -> "thingstodo"
ExpectedKeys(a) ==
    {"api_key", "limit"}
    \cup (IF a.park_code.k = "val" /\ Len(a.park_code.v) > 0 THEN {"parkCode"} ELSE {})
    \cup (IF a.state_code.k = "val" /\ Len(a.state_code.v) > 0 THEN {"stateCode"} ELSE {})
    \cup (IF a.search_term.k = "val" /\ Len(a.search_term.v) > 0 THEN {"q"} ELSE {})
ExpectedParams(a, key) ==
    [k \in ExpectedKeys(a) |->
        CASE k = "api_key" -> key
          [] k = "limit" -> (IF a.limit.k = "missing" THEN Some(10)
                             ELSE IF a.limit.k = "null" THEN None ELSE Some(a.limit.v))
          [] k = "parkCode" -> str_lower(a.park_code.v)
          [] k = "stateCode" -> str_upper(a.state_code.v)
          [] k = "q" -> a.search_term.v]

\* C10 (as claimed): a registered tool, valid arguments, a configured
\* credential and HTTP 200 at the first attempt: exactly one outbound call,
\* to the tool's endpoint, with exactly api_key, limit and the normalized
\* non-empty filters, and envelope status "success".
C10_OneCallThenSuccess ==
    LET sl == slots[1]
    IN  (Accepted(sl) /\ Registered(Req) /\ ~InvalidArgs(Req.arguments)
         /\ env_key \in {Some("key1"), Some("key2")}
         /\ Len(sl.outcomes) >= 1 /\ IsJsonObject200(sl.outcomes[1])) =>
            /\ sl.http_calls = 1 /\ Len(sl.calls) = 1
            /\ sl.calls[1].endpoint = ExpectedEndpoint(Val(Req.tool))
            /\ sl.calls[1].params = ExpectedParams(Req.arguments, Val(env_key))
            /\ sl.resp.http = 200
            /\ sl.resp.body.status = "success"

\* C11 (as claimed): in every outbound call a parkCode parameter is the
\* lower-cased caller value and has at least 2 characters, a stateCode
\* parameter is the upper-cased caller value and has exactly 2 characters,
\* and normalizing a parameter again changes nothing.
C11_NormalizedParameters ==
    LET sl == slots[1]
        a == Req.arguments
    IN  \A i \in 1..Len(sl.calls) :
            LET p == sl.calls[i].params
            IN  /\ "parkCode" \in DOMAIN p =>
                      /\ a.park_code.k = "val"
                      /\ p.parkCode = str_lower(a.park_code.v)
                      /\ Len(p.parkCode) >= 2
                      /\ str_lower(p.parkCode) = p.parkCode
                /\ "stateCode" \in DOMAIN p =>
                      /\ a.state_code.k = "val"
                      /\ p.stateCode = str_upper(a.state_code.v)
                      /\ Len(p.stateCode) = 2
                      /\ str_upper(p.stateCode) = p.stateCode

\* C12: an invocation of _make_request makes at least 1 and at most 3
\* outbound attempts, and after a timeout, a connection failure or a 429
\* received while fewer than 3 attempts have been made it does not return:
\* it sleeps, and the step that ends the sleep makes one more attempt.
IsRetriable(o) == o.exc \in {"Timeout", "ConnectionError"} \/ Is429(o)
C12_AttemptsBounded ==
    /\ [](LET sl == slots[1]
               n == Len(sl.outcomes)
           IN  /\ sl.http_calls = n /\ n <= 3
               /\ sl.adapter.how # "pending" => n >= 1
               /\ (n >= 1 /\ n < 3 /\ IsRetriable(sl.outcomes[n])) =>
                     /\ sl.pc = "backoff"
                     /\ sl.adapter.how = "pending")
    /\ [][(/\ slots[1].pc = "backoff"
           /\ Len(slots[1].outcomes) < 3
           /\ IsRetriable(slots[1].outcomes[Len(slots[1].outcomes)])
           /\ ev'.op = "resume") =>
              slots'[1].http_calls = slots[1].http_calls + 1]_vars

\* a timeout, a connection failure and a 429: three attempts and no fourth
C12_Witness ==
    LET sl == slots[1]
    IN  /\ sl.pc = "responded"
        /\ sl.outcomes = <<Timeout, ConnectionError, Response(429, NoBody)>>
        /\ sl.http_calls = 3
        /\ sl.adapter.how = "return"

\* C13: as long as no attempt received a 200, _make_request raises nothing
\* to its caller; once three such attempts are made it is suspended in the
\* sleep that follows a 429 or has returned an APIResponse with
\* success=false and a non-empty error.
Not200(o) == o.exc # "" \/ o.status # 200
C13_ExhaustionIsAReturnValue ==
    LET sl == slots[1]
        n == Len(sl.outcomes)
    IN  (\A i \in 1..n : Not200(sl.outcomes[i])) =>
            /\ sl.adapter.how # "raise"
            /\ n = 3 =>
                  \/ sl.pc = "backoff" /\ Is429(sl.outcomes[3])
                  \/ /\ sl.pc = "responded"
                     /\ sl.adapter.how = "return"
                     /\ ~sl.adapter.r.success
                     /\ ~IsNone(sl.adapter.r.error)
                     /\ Val(sl.adapter.r.error).msg # ""
                     /\ sl.resp.body.result = sl.adapter.r

\* 500, 429 and 404: the third attempt ends the invocation with a failure
C13_Witness ==
    LET sl == slots[1]
    IN  /\ sl.outcomes = <<Response(500, NoBody), Response(429, NoBody), Response(404, NoBody)>>
        /\ sl.pc = "responded"
        /\ sl.adapter.how = "return"
        /\ ~sl.adapter.r.success

\* C14: an invocation that reached the tool function is answered with the
\* envelope, status "success" and HTTP 200 when the result has success=true
\* and status "error" and HTTP 400 when it has not; HTTP 404 answers exactly
\* the requests that name an unknown tool; no request that fails by a
\* missing tool, an unknown tool, invalid arguments, a missing credential or
\* an upstream error is answered 500.
UnknownTool(b) == ~IsNone(b.tool) /\ Val(b.tool) # "" /\ ~Registered(b)
C14_StatusMapping ==
    LET sl == slots[1]
        r == sl.resp
    IN  sl.pc = "responded" =>
            /\ sl.validated =>
                  /\ r.body.kind = "envelope"
                  /\ r.body.tool = Val(Req.tool)
                  /\ r.body.result.success => (r.body.status = "success" /\ r.http = 200)
                  /\ ~r.body.result.success => (r.body.status = "error" /\ r.http = 400)
            /\ r.http = 404 <=> UnknownTool(Req)
            /\ r.http \in {200, 400, 404}
            /\ (IsNone(Req.tool) \/ Req.tool = Some("")) => r.http = 400
            /\ (Registered(Req) /\ InvalidArgs(Req.arguments)) => r.http = 400

\* three attempts answered 500: the upstream error is reported with HTTP 400
C14_Witness ==
    LET sl == slots[1]
    IN  /\ sl.pc = "responded" /\ sl.validated
        /\ Len(sl.outcomes) = 3
        /\ \A i \in 1..3 : sl.outcomes[i] = Response(500, NoBody)
        /\ sl.resp.http = 400
        /\ sl.resp.body.status = "error"

\* C15: the step in which an invocation's tool function starts reads
\* NPS_API_KEY once and uses the value the environment holds in that step:
\* unset or empty gives the missing-credential result and no outbound call,
\* any other value is the api_key of every outbound call of the invocation,
\* the retries made after later changes of the environment included; a
\* discovery reads nothing.
C15_CredentialReadAtInvocation ==
    [][/\ (ev'.op = "mcp_post" /\ slots'[1].validated) =>
             /\ ev'.getenv = 1 /\ slots'[1].cred_reads = 1
             /\ slots'[1].api_key = env_key
             /\ env_key \in {None, Some("")} =>
                   /\ slots'[1].pc = "responded"
                   /\ slots'[1].resp.body.result = MissingCredential
                   /\ slots'[1].http_calls = 0
             /\ env_key \notin {None, Some("")} =>
                   /\ slots'[1].params.api_key = Val(env_key)
                   /\ \A i \in 1..Len(slots'[1].calls) :
                         slots'[1].calls[i].params.api_key = Val(env_key)
       /\ ev'.op = "resume" =>
             /\ ev'.getenv = 0
             /\ slots'[1].api_key = slots[1].api_key
             /\ \A i \in 1..Len(slots'[1].calls) :
                   slots'[1].calls[i].params.api_key = Val(slots[1].api_key)
       /\ ev'.op \in {"mcp_get", "nps_mcp_get"} =>
             ev'.getenv = 0 /\ slots' = slots]_vars

\* an invocation made after the key was removed: an earlier invocation had
\* sent an outbound call, this one gets the missing-credential result
C15_Witness ==
    /\ ev.op = "mcp_post"
    /\ last_request_time > 0
    /\ env_key = None
    /\ slots[1].cred_reads = 1
    /\ slots[1].resp.body.kind = "envelope"
    /\ slots[1].resp.body.result = MissingCredential

\* C16 (as claimed): what the caller receives does not depend on the value
\* of the credential: the key an invocation read occurs in no error string
\* of its response, and the search_params echoed in the metadata have no
\* api_key.
C16_CredentialNotInResponse ==
    LET sl == slots[1]
        r == sl.resp.body.result
    IN  (sl.pc = "responded" /\ sl.resp.body.kind = "envelope" /\ ~IsNone(sl.api_key)) =>
            /\ ~IsNone(r.error) => Val(sl.api_key) \notin Val(r.error).mentions
            /\ (~IsNone(r.metadata) /\ "search_params" \in DOMAIN Val(r.metadata)) =>
                  "api_key" \notin DOMAIN Val(r.metadata).search_params

\* C17: an attempt that receives HTTP 200 with a JSON object is the last
\* one: _make_request returns in the same step, after no further sleep, an
\* APIResponse with success=true, the parsed body as data, the body's total
\* (0 when it has none) as total_results and the requested endpoint as
\* api_endpoint.
C17_SuccessReturnsAtOnce ==
    LET sl == slots[1]
        n == Len(sl.outcomes)
    IN  \A i \in 1..n :
            IsJsonObject200(sl.outcomes[i]) =>
                /\ i = n /\ sl.http_calls = i
                /\ Len(sl.slept) = i - 1
                /\ sl.pc = "responded"
                /\ sl.adapter.how = "return"
                /\ sl.adapter.r.success
                /\ sl.adapter.r.data = Some(sl.outcomes[i].body)
                /\ IsNone(sl.adapter.r.error)
                /\ Val(sl.adapter.r.metadata).total_results =
                      (IF sl.outcomes[i].body.total = <<>> THEN 0
                       ELSE sl.outcomes[i].body.total[1])
                /\ Val(sl.adapter.r.metadata).api_endpoint = ExpectedEndpoint(Val(Req.tool))

\* a timeout, then 200 with {"total": 1, ...} at the second attempt
C17_Witness ==
    LET sl == slots[1]
    IN  /\ sl.outcomes = <<Timeout, Response(200, BodyPlain)>>
        /\ sl.adapter.how = "return"
        /\ Val(sl.adapter.r.metadata).total_results = 1
        /\ sl.slept = <<1>>

\* C18: a health request is answered 200 "healthy" in the step that handles
\* it, with no outbound call and nothing else changed; api_key_configured is
\* true exactly when NPS_API_KEY is set to a non-empty value in that step,
\* and the tool count is the number of entries of the registry (3 in
\* src/dep.py, 2 in src/nps.py).
C18_HealthWithoutCredential ==
    [][/\ ev'.op = "health_check" =>
            /\ reply'.http = 200
            /\ reply'.body.status = "healthy"
            /\ reply'.body.api_key_configured = (env_key \notin {None, Some("")})
            /\ reply'.body.tools_available = Cardinality(DOMAIN TOOLS_REGISTRY)
            /\ reply'.body.tools_available = 3
            /\ ev'.http = 0
            /\ UNCHANGED <<now, env_key, registry, last_request_time, slots, starts>>
       /\ ev'.op = "nps_health_check" =>
            /\ reply'.http = 200
            /\ reply'.body.status = "healthy"
            /\ reply'.body.api_key_configured = (env_key \notin {None, Some("")})
            /\ reply'.body.tools_count = 2
            /\ ev'.http = 0
            /\ UNCHANGED <<now, env_key, registry, last_request_time, slots, starts>>]_vars

\* health was served with an empty NPS_API_KEY while an invocation is
\* suspended
C18_Witness ==
    /\ ev.op = "health_check"
    /\ env_key = Some("")
    /\ reply.body.kind = "health"
    /\ ~reply.body.api_key_configured
    /\ \E s \in DOMAIN slots : slots[s].pc = "rate_wait"

\* C19: a cleanup request changes nothing but the response it gives: the
\* registry, the credential, last_request_time, the clock and every
\* invocation in flight are as before, and the response is the same
\* "cleaned" payload whatever the state, so that a second cleanup in a row
\* changes nothing at all.
C19_CleanupChangesNothing ==
    [][/\ ev'.op = "mcp_delete" =>
            /\ reply' = CleanupResponse
            /\ reply'.http = 200 /\ reply'.body.status = "cleaned"
            /\ UNCHANGED <<now, env_key, registry, last_request_time, slots, starts>>
            /\ ev.op = "mcp_delete" => reply' = reply
       /\ ev'.op = "nps_mcp_delete" =>
            /\ reply' = NpsCleanupResponse
            /\ reply'.http = 200 /\ reply'.body.status = "cleaned"
            /\ UNCHANGED <<now, env_key, registry, last_request_time, slots, starts>>
            /\ ev.op = "nps_mcp_delete" => reply' = reply]_vars

\* a cleanup served after an outbound call, with an invocation suspended
C19_Witness ==
    /\ ev.op = "mcp_delete"
    /\ reply.body.status = "cleaned"
    /\ last_request_time > 0
    /\ env_key = Some("key1")
    /\ \E s \in DOMAIN slots : slots[s].pc = "rate_wait"

\* C20: the registry is the dict built at startup: the same three names,
\* each with the description, input schema and tool function it had, and a
\* name field equal to its key.
C20_RegistryImmutable ==
    /\ registry = TOOLS_REGISTRY
    /\ DOMAIN registry = {"get_park", "get_passport_stamp_locations", "get_park_activities"}
    /\ \A n \in DOMAIN registry :
          /\ registry[n].name = n
          /\ registry[n].function = ToolFunction(n)
          /\ registry[n].description = <<"description of", n>>
          /\ registry[n].input_schema = "ParkSearchArgs.schema()"

\* one invocation has succeeded, another has failed on an unknown tool, and
\* a health request was served last
C20_Witness ==
    /\ slots[1].pc = "responded" /\ slots[1].resp.http = 200
    /\ slots[2].pc = "responded" /\ slots[2].resp.http = 404
    /\ reply.body.kind = "health"
    /\ DOMAIN registry = {"get_park", "get_passport_stamp_locations", "get_park_activities"}

\* C21 (as claimed): in the gateway of src/nps.py a request without a tool
\* name is answered 400, a request naming an unregistered tool is answered
\* 404, and neither is answered 500.
C21_NpsLookupFailures ==
    LET b == nps.req
    IN  nps.resp.http # 0 =>
            /\ (IsNone(b.tool) \/ b.tool = Some("")) => nps.resp.http = 400
            /\ (~IsNone(b.tool) /\ b.tool # Some("")
                /\ Val(b.tool) \notin {"get_park", "get_passport_stamp_locations"}) =>
                  nps.resp.http = 404

\* C30 (as claimed): in the gateway of src/nps.py an invocation of a
\* registered tool whose result is an error (credential absent, upstream
\* request failed) is answered with envelope status "error", and "success"
\* only when the upstream call succeeded.
C30_NpsErrorStatus ==
    (nps.resp.http # 0 /\ nps.resp.body.kind = "envelope") =>
        /\ nps.resp.body.result.kind = "error" => nps.resp.body.status = "error"
        /\ nps.resp.body.status = "success" =>
              (Len(nps.calls) = 1 /\ nps.resp.body.result.kind = "data")

\* C22 (as claimed): a tool served through nps_get_park or nps_get_general
\* and called while NPS_API_KEY is unset or empty returns a structured
\* failure without any outbound call.
C22_StdioCredentialGate ==
    (stdio.adapter \in {"nps_get_park", "nps_get_general"}
     /\ stdio.key \in {None, Some("")}) =>
        /\ stdio.result.kind = "error"
        /\ stdio.calls = <<>>

\* C23 (as claimed): every outbound call of the three adapters has the
\* api_key query parameter, with the configured key as its value.
C23_ApiKeyOnEveryCall ==
    \A i \in 1..Len(stdio.calls) :
        /\ "api_key" \in DOMAIN stdio.calls[i].query
        /\ stdio.calls[i].query.api_key = Val(stdio.key)

\* C24: the failure of a request is that of its first failing stage, in the
\* order missing tool, unknown tool, invalid arguments, missing credential,
\* upstream failure, and no later stage is entered: a request without a tool
\* name gets the 400 missing-parameter failure whatever its arguments, an
\* unknown tool gets the 404 also with invalid arguments, neither validates
\* anything, invalid arguments read no credential, and a missing credential
\* makes no outbound call.
C24_FirstFailingStage ==
    LET sl == slots[1]
        r == sl.resp
        a == Req.arguments
        NoTool == IsNone(Req.tool) \/ Req.tool = Some("")
    IN  Accepted(sl) =>
            /\ NoTool =>
                  /\ r.http = 400 /\ r.body.kind = "detail"
                  /\ r.body.detail = "Missing 'tool' parameter"
                  /\ ~sl.validated /\ sl.cred_reads = 0 /\ sl.http_calls = 0
            /\ (~NoTool /\ ~Registered(Req)) =>
                  /\ r.http = 404
                  /\ ~InvalidArgumentsFailure(r)
                  /\ ~sl.validated /\ sl.cred_reads = 0 /\ sl.http_calls = 0
            /\ (Registered(Req) /\ InvalidArgs(a)) =>
                  /\ InvalidArgumentsFailure(r)
                  /\ ~sl.validated /\ sl.cred_reads = 0 /\ sl.http_calls = 0
            /\ (Registered(Req) /\ ~InvalidArgs(a)) =>
                  /\ sl.validated /\ sl.cred_reads = 1
                  /\ sl.api_key \in {None, Some("")} =>
                        /\ r.body.kind = "envelope"
                        /\ r.body.result = MissingCredential
                        /\ sl.http_calls = 0
                  /\ (sl.api_key \notin {None, Some("")} /\ sl.pc = "responded") =>
                        /\ sl.http_calls >= 1
                        /\ r.body.kind = "envelope"
                        /\ r.body.result # MissingCredential

\* an unknown tool with invalid arguments was answered 404
C24_Witness ==
    /\ Accepted(slots[1])
    /\ Req.tool = Some("get_parks")
    /\ InvalidArgs(Req.arguments)
    /\ slots[1].resp.http = 404
    /\ ~slots[1].validated

\* C25: before attempt k+1 (k from 0) of an invocation exactly k+1 sleeps
\* have been made, the one after attempt k lasting 2^k seconds (1 s after
\* the first attempt, 2 s after the second) for every kind of failure, and
\* attempt k+1 starts no sooner than that after attempt k.
C25_OneBackoffPerAttempt ==
    LET sl == slots[1]
        n == Len(sl.outcomes)
    IN  n >= 1 =>
            /\ Len(sl.slept) \in {n - 1, n}
            /\ Len(sl.slept) = n => sl.pc = "backoff" \/ Is429(sl.outcomes[n])
            /\ \A i \in 1..Len(sl.slept) : sl.slept[i] = 2 ^ (i - 1)
            /\ \A i \in 1..(n - 1) :
                  /\ ~IsJsonObject200(sl.outcomes[i])
                  /\ sl.calls[i + 1].at >= sl.calls[i].at + sl.slept[i] * 1000

\* three attempts after a 429 and a connection failure: sleeps of 1 s and 2 s
C25_Witness ==
    LET sl == slots[1]
    IN  /\ Len(sl.outcomes) = 3
        /\ Is429(sl.outcomes[1])
        /\ sl.outcomes[2] = ConnectionError
        /\ sl.slept = <<1, 2>>
        /\ sl.pc = "responded"

\* C26: with one invocation at a time, whatever the tools invoked: an
\* invocation that reaches the adapter less than RATE_LIMIT_DELAY after the
\* start of the previous outbound call is suspended until that interval has
\* elapsed and makes no call in that step, two consecutive outbound calls
\* are never started less than RATE_LIMIT_DELAY apart, and
\* last_request_time is the start time of the latest outbound attempt.
C26_SharedRateLimitClock ==
    /\ [](/\ Len(starts) = 2 => starts[2] - starts[1] >= 100
          /\ last_request_time = (IF starts = <<>> THEN 0 ELSE starts[Len(starts)])
          /\ \A i \in 1..Len(slots[1].calls) : slots[1].calls[i].at <= last_request_time)
    /\ [][(/\ ev'.op = "mcp_post"
           /\ slots'[1].validated
           /\ env_key \notin {None, Some("")}
           /\ now - last_request_time < 100) =>
              /\ slots'[1].pc = "rate_wait"
              /\ slots'[1].wake = last_request_time + 100
              /\ slots'[1].http_calls = 0
              /\ UNCHANGED <<now, last_request_time, starts>>]_vars

\* an invocation of get_park_activities that waited on the clock another
\* invocation had set, and then called exactly RATE_LIMIT_DELAY after it
C26_Witness ==
    /\ slots[1].pc = "responded"
    /\ slots[1].tool_fn = "get_park_activities_data"
    /\ slots[1].rate_wait > 0
    /\ Len(starts) = 2
    /\ starts[2] - starts[1] = RATE_LIMIT_DELAY_MS
    /\ slots[1].calls[1].at = starts[2]

\* C27 (as claimed): the rate-limit wait and the backoff waits of an
\* invocation are no interleaving points: while an invocation is suspended
\* in one of them no other request (a discovery, another invocation) is
\* handled.
C27_WaitsAreNotInterleavingPoints ==
    [][\A s \in DOMAIN slots :
          slots[s].pc \in {"rate_wait", "backoff"} =>
              /\ ev'.op # "mcp_get"
              /\ ~(ev'.op = "mcp_post" /\ ev'.slot # s)]_vars

\* C28: an invocation that is suspended, on the rate-limit clock or in a
\* backoff, is eventually answered, whatever the upstream outcomes and the
\* other invocation do (an invocation that is not suspended has been
\* answered in the step that accepted it).
C28_EveryInvocationResponds ==
    \A s \in Two :
        (slots[s].pc \in {"rate_wait", "backoff"}) ~> (slots[s].pc = "responded")

\* an invocation answered after a wait on the rate-limit clock and three
\* attempts
C28_Witness ==
    \E s \in Two :
        /\ slots[s].pc = "responded"
        /\ slots[s].rate_wait > 0
        /\ Len(slots[s].outcomes) = 3
        /\ slots[s].resp.body.kind = "envelope"

\* C29 (as claimed): every outbound call carries a limit parameter that is
\* an integer from 1 to 50, and it is 10 when the caller gave no limit or
\* gave null. A parameter whose value is None is not put on the wire.
C29_LimitOnEveryCall ==
    LET sl == slots[1]
        a == Req.arguments
    IN  \A i \in 1..Len(sl.calls) :
            LET p == sl.calls[i].params
            IN  /\ "limit" \in DOMAIN p
                /\ ~IsNone(p.limit)
                /\ Val(p.limit) \in LIMIT_GE..LIMIT_LE
                /\ a.limit.k \in {"missing", "null"} => p.limit = Some(LIMIT_DEFAULT)
\* C31 (as claimed): once the third attempt of an invocation has been made
\* the invocation is answered in the same step, without a further backoff
\* sleep, whatever the outcome of that attempt; at most two sleeps are made
\* in one invocation, of 1 s and 2 s, 3 s in total.
C31_NoSleepAfterLastAttempt ==
    LET sl == slots[1]
        total[i \in 0..Len(sl.slept)] == IF i = 0 THEN 0 ELSE total[i - 1] + sl.slept[i]
    IN  /\ Len(sl.outcomes) = MAX_RETRIES => sl.pc = "responded"
        /\ Len(sl.slept) <= MAX_RETRIES - 1
        /\ total[Len(sl.slept)] <= 3
\* C32 (as claimed): when _make_request returns success=true, the tool
\* function's result has success=true and the same data, and its metadata is
\* the adapter's metadata, unchanged or with keys added, whatever the shape
\* of the items of the upstream body.
C32_EnrichmentKeepsSuccess ==
    LET sl == slots[1]
        r == sl.resp.body.result
    IN  (sl.pc = "responded" /\ sl.adapter.how = "return" /\ sl.adapter.r.success) =>
            /\ r.success
            /\ r.data = sl.adapter.r.data
            /\ IsNone(r.error)
            /\ ~IsNone(r.metadata)
            /\ \/ r.metadata = sl.adapter.r.metadata
               \/ /\ "base" \in DOMAIN Val(r.metadata)
                  /\ Val(r.metadata).base = Val(sl.adapter.r.metadata)
\* C33 (as claimed): each adapter of src/src/api_utils.py, for every
\* argument set its model accepts and every upstream outcome, returns the
\* parsed upstream body or an {"error": message} mapping and raises nothing
\* to the calling tool.
C33_AdaptersNeverRaise ==
    stdio.adapter \in {"nps_get_park", "nps_get_general", "nps_get_map_metadata"} =>
        stdio.result.kind \in {"data", "error"}
====
